---- MODULE Spec2Model ----
(***************************************************************************)
(* scripts/update_contributors.py: main() regenerates the contributors     *)
(* block of README.md from contributors.json.                              *)
(*                                                                         *)
(* A text is a sequence of tokens.  The two marker literals are single     *)
(* tokens: both start with "<!--", end with "-->" and contain "<" only at  *)
(* their first character, so no marker occurrence can overlap another one  *)
(* or come into being across a concatenation point.  Whitespace characters *)
(* are the tokens NL and SP.  The text main() generates is made of its     *)
(* literal pieces and of the field values of the records, one token each;  *)
(* field values are marker-free and free of whitespace at their ends.      *)
(***************************************************************************)
EXTENDS Integers, Sequences, FiniteSets, TLC

VARIABLES
    contributors_json,  \* the file contributors.json: [state, value]
    readme_file,        \* README.md on disk: "missing", "unreadable", "present"
    readme_text,        \* the text of README.md (<<>> when there is none)
    pr_author,          \* os.getenv("PR_AUTHOR"); "" when unset or empty
    repo_name,          \* os.getenv("GITHUB_REPOSITORY"); "None" when unset
    disk_may_fail,      \* whether opening or writing README.md can raise OSError
    runs,               \* runs of main() since the inputs were last set
    exit_code,          \* exit status of the last run (meaningful once runs > 0)
    message,            \* which line the last run printed last
    wrote,              \* whether the last run opened README.md for writing and wrote it
    content,            \* main()'s local `content` in the last run
    new_section,        \* main()'s local `new_section` in the last run (<<>> if not built)
    path                \* branch of line 69 the last run took: "marker", "append", "none"

vars == <<contributors_json, readme_file, readme_text, pr_author, repo_name,
          disk_may_fail,
          runs, exit_code, message, wrote, content, new_section, path>>

---------------------------------------------------------------------------
(* Bounds of the model *)

MaxChunks == 3
MaxRenderContributors == 2
MaxMergeContributors == 1
MaxRuns == 2

---------------------------------------------------------------------------
(* Literals of main() *)

start_marker == "<!-- CONTRIBUTORS START -->"
end_marker == "<!-- CONTRIBUTORS END -->"
NL == "\n"
SP == " "
QGT == "\">"
ENDA == "</a>"
CHART == "chart-emoji"

bots_to_exclude == {"actions-user", "github-actions[bot]", "GitHub Action"}

ExitSuccess == 0
ExitNoChange == 0
ExitError == 1

---------------------------------------------------------------------------
(* str operations used by main() *)

IsSpace(t) == t \in {NL, SP}

\* `sub in s`
Contains(s, sub) ==
    \E i \in 1..(Len(s) - Len(sub) + 1) : SubSeq(s, i, i + Len(sub) - 1) = sub

\* s.find(tok): index of the first occurrence of a one-token separator, 0 if none
Find(s, tok) ==
    IF \E i \in 1..Len(s) : s[i] = tok
    THEN CHOOSE i \in 1..Len(s) : s[i] = tok /\ \A j \in 1..(i - 1) : s[j] # tok
    ELSE 0

\* s.split(tok, 1): the list of the parts, one part when tok does not occur
Split1(s, tok) ==
    LET i == Find(s, tok)
    IN  IF i = 0 THEN <<s>>
        ELSE <<SubSeq(s, 1, i - 1), SubSeq(s, i + 1, Len(s))>>

RECURSIVE RStrip(_)
\* s.rstrip()
RStrip(s) ==
    IF s # <<>> /\ IsSpace(s[Len(s)]) THEN RStrip(SubSeq(s, 1, Len(s) - 1)) ELSE s

RECURSIVE LStrip(_)
LStrip(s) ==
    IF s # <<>> /\ IsSpace(s[1]) THEN LStrip(Tail(s)) ELSE s

\* s.strip()
Strip(s) == LStrip(RStrip(s))

RECURSIVE Join(_, _)
\* sep.join(lines), sep one token
Join(lines, sep) ==
    IF lines = <<>> THEN <<>>
    ELSE IF Len(lines) = 1 THEN lines[1]
    ELSE lines[1] \o <<sep>> \o Join(Tail(lines), sep)

---------------------------------------------------------------------------
(* Lines 36-66: the HTML table *)

HeaderLines ==
    << <<"<h2>Contributors</h2>">>,
       <<"<table border='1' cellspacing='0' cellpadding='5'>">>,
       <<SP, SP, "<thead>">>,
       <<SP, SP, SP, SP, "<tr><th>Avatar</th><th>Username</th><th>Insights</th></tr>">>,
       <<SP, SP, "</thead>">>,
       <<SP, SP, "<tbody>">> >>

FooterLines ==
    << <<SP, SP, "</tbody>">>,
       <<"</table>">> >>

\* the f-string of lines 55-61 for a record that has the three keys
Row(c, repo) ==
    << SP, SP, SP, SP, "<tr>",
       "<td><img src=\"", c["avatar_url"],
       "?s=50\" alt=\"Avatar\" width=\"50\" height=\"50\"></td>",
       "<td><a href=\"", c["html_url"], QGT, c["login"], ENDA, "</td>",
       "<td><a href=\"https://github.com/", repo, "/graphs/contributors", QGT,
       CHART, ENDA, "</td>",
       "</tr>" >>

\* faulty variant: the login compared without regard to case
IsExcluded_IgnoreCase(c) == c["login"] \in bots_to_exclude \cup {"Actions-User"}

\* line 52: `contributor["login"] in bots_to_exclude`
IsExcluded(c) == c["login"] \in bots_to_exclude

\* contributor[k] raises KeyError when the record has no key k
HasKey(c, k) == k \in DOMAIN c

RECURSIVE RowLines(_, _)
\* the loop of lines 50-62: [err, lines]; err when a subscript raised KeyError,
\* which ends the loop at that record
RowLines(cs, repo) ==
    IF cs = <<>> THEN [err |-> FALSE, lines |-> <<>>]
    ELSE LET c == Head(cs)
         IN  IF ~HasKey(c, "login") THEN [err |-> TRUE, lines |-> <<>>]
             ELSE IF IsExcluded(c) THEN RowLines(Tail(cs), repo)
             ELSE IF ~HasKey(c, "avatar_url") \/ ~HasKey(c, "html_url")
                  THEN [err |-> TRUE, lines |-> <<>>]
             ELSE LET rest == RowLines(Tail(cs), repo)
                  IN  [err |-> rest.err,
                       lines |-> IF rest.err THEN <<>> ELSE <<Row(c, repo)>> \o rest.lines]

\* lines 37-66: html_lines joined by "\n"
Render(cs, repo) ==
    Join(HeaderLines \o RowLines(cs, repo).lines \o FooterLines, NL)

---------------------------------------------------------------------------
(* Lines 31-34 and 68-77: the early exit and the merge *)

\* faulty variant: the link looked for only in a README.md that has a start marker
AuthorListed_OnlyWithMarker(author, text) ==
    author # "" /\ Contains(text, <<start_marker>>) /\ Contains(text, <<QGT, author, ENDA>>)

\* line 32: `pr_author and f'">{pr_author}</a>' in content`
AuthorListed(author, text) ==
    author # "" /\ Contains(text, <<QGT, author, ENDA>>)

\* faulty variant: `or` for `and`
BothMarkers_Or(text) ==
    Contains(text, <<start_marker>>) \/ Contains(text, <<end_marker>>)

\* faulty variant: startswith for `in`
BothMarkers_StartsWith(text) ==
    text # <<>> /\ text[1] = start_marker /\ Contains(text, <<end_marker>>)

\* line 69: `start_marker in content and end_marker in content`
BothMarkers(text) ==
    Contains(text, <<start_marker>>) /\ Contains(text, <<end_marker>>)

\* faulty variant: the sections compared without strip()
SameSection_NoStrip(section, current) == section = current

\* line 72: `new_section.strip() == current_section.strip()`
SameSection(section, current) == Strip(section) = Strip(current)

\* faulty variant: `after` left out of the f-string
ReplaceBlock_DropAfter(before, section, after) ==
    before \o <<start_marker, NL>> \o section \o <<NL, end_marker>>

\* line 75
ReplaceBlock(before, section, after) ==
    before \o <<start_marker, NL>> \o section \o <<NL, end_marker>> \o after

\* faulty variant: content without rstrip()
AppendBlock_NoRStrip(text, section) ==
    text \o <<NL, NL, start_marker, NL>> \o section \o <<NL, end_marker, NL>>

\* line 77
AppendBlock(text, section) ==
    RStrip(text) \o <<NL, NL, start_marker, NL>> \o section \o <<NL, end_marker, NL>>

\* faulty variant: the last handler prints and falls through, without sys.exit(1)
Failure_FallsThrough(msg, file, text, read, section, branch) ==
    [exit_code |-> IF msg = "Unexpected error updating README.md" THEN 0 ELSE 1,
     message |-> msg, wrote |-> FALSE,
     file |-> file, text |-> text, content |-> read, new_section |-> section,
     path |-> branch]

\* the `except` clauses of lines 85-96: every one ends in sys.exit(1)
Failure(msg, file, text, read, section, branch) ==
    [exit_code |-> ExitError, message |-> msg, wrote |-> FALSE,
     file |-> file, text |-> text, content |-> read, new_section |-> section,
     path |-> branch]

ParseError == "Error parsing contributors.json"
NotFound == "File not found"
IOError == "I/O error"
Unexpected == "Unexpected error updating README.md"
Skipped == "is already in README.md. Skipping update."
NoChanges == "No changes detected in the contributors list. README.md will not be updated."
Updated == "README.md successfully updated with the contributors list."

\* lines 79-83: open(readme_filename, "w") and f.write(updated_content).
\* fault "open": open() raises (permission), the file is untouched;
\* fault "write": open() has truncated the file and the write raises (disk full).
WriteReadme(updated, file, text, read, section, branch, fault) ==
    IF fault = "open" THEN Failure(IOError, file, text, read, section, branch)
    ELSE IF fault = "write"
         THEN [Failure(IOError, "present", <<>>, read, section, branch)
                  EXCEPT !.wrote = TRUE]
    ELSE [exit_code |-> ExitSuccess, message |-> Updated, wrote |-> TRUE,
          file |-> "present", text |-> updated, content |-> read,
          new_section |-> section, path |-> branch]

\* lines 68-83
Merge(read, section, file, text, fault) ==
    IF BothMarkers(read)
    THEN LET parts == Split1(read, start_marker)
             before == parts[1]
             parts2 == Split1(parts[2], end_marker)
         IN  IF Len(parts) # 2
             THEN \* line 70: ValueError, not enough values to unpack
                  Failure(Unexpected, file, text, read, section, "marker")
             ELSE IF Len(parts2) # 2
             THEN \* line 71: ValueError, not enough values to unpack
                  Failure(Unexpected, file, text, read, section, "marker")
             ELSE IF SameSection(section, parts2[1])
             THEN [exit_code |-> ExitNoChange, message |-> NoChanges, wrote |-> FALSE,
                   file |-> file, text |-> text, content |-> read,
                   new_section |-> section, path |-> "marker"]
             ELSE WriteReadme(ReplaceBlock(before, section, parts2[2]),
                              file, text, read, section, "marker", fault)
    ELSE WriteReadme(AppendBlock(read, section), file, text, read, section,
                     "append", fault)

\* main(), lines 6-96: the outcome of one run on the given files and environment
Main(cj, file, text, author, repo, fault) ==
    IF cj.state = "missing" THEN Failure(NotFound, file, text, <<>>, <<>>, "none")
    ELSE IF cj.state = "unreadable" THEN Failure(IOError, file, text, <<>>, <<>>, "none")
    ELSE IF cj.state = "invalid" THEN Failure(ParseError, file, text, <<>>, <<>>, "none")
    ELSE IF file = "unreadable" THEN Failure(IOError, file, text, <<>>, <<>>, "none")
    ELSE LET read == IF file = "present" THEN text ELSE <<>>
         IN  IF AuthorListed(author, read)
             THEN [exit_code |-> ExitSuccess, message |-> Skipped, wrote |-> FALSE,
                   file |-> file, text |-> text, content |-> read,
                   new_section |-> <<>>, path |-> "none"]
             ELSE IF cj.state = "scalar"
             THEN \* line 50: TypeError, a number is not iterable
                  Failure(Unexpected, file, text, read, <<>>, "none")
             ELSE IF RowLines(cj.value, repo).err
             THEN \* KeyError
                  Failure(Unexpected, file, text, read, <<>>, "none")
             ELSE Merge(read, Render(cj.value, repo), file, text, fault)

---------------------------------------------------------------------------
(* The files and the environment main() is run on *)

Logins == {"alice", "bob", "github-actions[bot]", "Actions-User"}

AvatarOf(l) ==
    CASE l = "alice" -> "u1" [] l = "bob" -> "u2" [] OTHER -> "u3"

HtmlOf(l) ==
    CASE l = "alice" -> "h1" [] l = "bob" -> "h2" [] OTHER -> "h3"

\* a record of the GitHub contributors API
Person(l) == [login |-> l, avatar_url |-> AvatarOf(l), html_url |-> HtmlOf(l)]

\* the record without key k
Drop(c, k) == [f \in (DOMAIN c) \ {k} |-> c[f]]

Keys == {"login", "avatar_url", "html_url"}

SeqsUpTo(S, n) == UNION {[1..k -> S] : k \in 0..n}

RECURSIVE Flatten(_)
Flatten(ss) == IF ss = <<>> THEN <<>> ELSE Head(ss) \o Flatten(Tail(ss))

Json(state, value) == [state |-> state, value |-> value]

\* contributors.json absent, unreadable, not JSON, or a JSON number
BadJsons == {Json(st, <<>>) : st \in {"missing", "unreadable", "invalid", "scalar"}}

RenderRecords ==
    {Person(l) : l \in Logins} \cup {Drop(Person(l), k) : l \in Logins, k \in Keys}

RenderJsons ==
    BadJsons \cup {Json("array", v) : v \in SeqsUpTo(RenderRecords, MaxRenderContributors)}

MergeRecords == {Person("alice"), Person("github-actions[bot]")}

\* contributors.json as the GitHub API returns it
MergeJsons ==
    {Json("array", v) : v \in SeqsUpTo(MergeRecords, MaxMergeContributors)}

\* a link as main() renders it for alice
Link == <<QGT, "alice", ENDA>>

\* the pieces README.md is made of besides the markers: whitespace, text, a link
PlainFillers == {<<NL>>, <<SP>>, <<"x">>, Link}

\* and the table an earlier run rendered from the same contributors.json
Fillers(cj, repo) ==
    PlainFillers
    \cup (IF cj.state = "array" /\ ~RowLines(cj.value, repo).err
          THEN {Render(cj.value, repo)} ELSE {})

\* the markers in any number and order
FreeForm(F) ==
    {Flatten(ss) : ss \in SeqsUpTo({<<start_marker>>, <<end_marker>>} \cup F, MaxChunks)}

\* one block with text before it, in it and after it
BlockForm(F) ==
    LET Part == {<<>>} \cup F
    IN  {b \o <<start_marker>> \o m \o <<end_marker>> \o a : b \in Part, m \in Part, a \in Part}

Readmes(cj, repo) == FreeForm(Fillers(cj, repo)) \cup BlockForm(Fillers(cj, repo))

Count(s, tok) == Cardinality({i \in 1..Len(s) : s[i] = tok})

NoRun ==
    /\ runs = 0
    /\ exit_code = ExitSuccess
    /\ message = ""
    /\ wrote = FALSE
    /\ content = <<>>
    /\ new_section = <<>>
    /\ path = "none"

\* any README.md, a small contributors.json
Init ==
    /\ contributors_json \in MergeJsons
    /\ pr_author \in {"", "alice"}
    /\ repo_name = "org/repo"
    /\ disk_may_fail = FALSE
    /\ \/ readme_file = "missing" /\ readme_text = <<>>
       \/ readme_file = "present" /\ readme_text \in Readmes(contributors_json, repo_name)
    /\ NoRun

\* any contributors.json and environment, a few README.md
InitRender ==
    /\ contributors_json \in RenderJsons
    /\ pr_author \in {"", "alice"}
    /\ repo_name \in {"None", "org/repo"}
    /\ disk_may_fail = TRUE
    /\ \/ readme_file \in {"missing", "unreadable"} /\ readme_text = <<>>
       \/ /\ readme_file = "present"
          /\ readme_text \in {<<"x">>, Link, <<start_marker, NL, "x", NL, end_marker>>,
                              <<start_marker>> \o Link \o <<end_marker>>,
                              Link \o <<start_marker>>}
    /\ NoRun

\* README.md without markers, or with one start marker followed by one end marker
InitRepeat ==
    /\ contributors_json \in MergeJsons
    /\ pr_author \in {"", "alice"}
    /\ repo_name = "org/repo"
    /\ disk_may_fail = FALSE
    /\ \/ readme_file = "missing" /\ readme_text = <<>>
       \/ /\ readme_file = "present"
          /\ readme_text \in
               {t \in FreeForm(PlainFillers) \cup BlockForm(PlainFillers) :
                   \/ Count(t, start_marker) = 0 /\ Count(t, end_marker) = 0
                   \/ /\ Count(t, start_marker) = 1 /\ Count(t, end_marker) = 1
                      /\ Find(t, start_marker) < Find(t, end_marker)}
    /\ NoRun

---------------------------------------------------------------------------
(* Actions *)

\* new inputs: no run has been made on them yet
ClearRun ==
    /\ runs' = 0
    /\ exit_code' = ExitSuccess
    /\ message' = ""
    /\ wrote' = FALSE
    /\ content' = <<>>
    /\ new_section' = <<>>
    /\ path' = "none"

\* one run of the script
Run ==
    /\ runs < MaxRuns
    /\ \E fault \in (IF disk_may_fail THEN {"none", "open", "write"} ELSE {"none"}) :
         LET r == Main(contributors_json, readme_file, readme_text, pr_author,
                       repo_name, fault)
         IN  /\ readme_file' = r.file
             /\ readme_text' = r.text
             /\ exit_code' = r.exit_code
             /\ message' = r.message
             /\ wrote' = r.wrote
             /\ content' = r.content
             /\ new_section' = r.new_section
             /\ path' = r.path
    /\ runs' = runs + 1
    /\ UNCHANGED <<contributors_json, pr_author, repo_name, disk_may_fail>>

\* the workflow fetches a new contributors.json before its next run
SetContributors ==
    /\ runs > 0
    /\ \E cj \in MergeJsons : cj # contributors_json /\ contributors_json' = cj
    /\ ClearRun
    /\ UNCHANGED <<readme_file, readme_text, pr_author, repo_name, disk_may_fail>>

\* the workflow's next run is for another pull request
SetPrAuthor ==
    /\ runs > 0
    /\ \E a \in {"", "alice"} : a # pr_author /\ pr_author' = a
    /\ ClearRun
    /\ UNCHANGED <<readme_file, readme_text, contributors_json, repo_name, disk_may_fail>>

Next == Run

NextRepeat == Run \/ SetContributors \/ SetPrAuthor

Spec == Init /\ [][Next]_vars

SpecRender == InitRender /\ [][Next]_vars

SpecRepeat == InitRepeat /\ [][NextRepeat]_vars

---------------------------------------------------------------------------
(* Vocabulary of the properties, defined on texts without the operators above *)

Occurs(t, tok) == \E i \in 1..Len(t) : t[i] = tok

\* the text holds the link ">author</a>
Listed(t, author) ==
    \E i \in 1..(Len(t) - 2) : t[i] = QGT /\ t[i + 1] = author /\ t[i + 2] = ENDA

Blank(tok) == tok = NL \/ tok = SP

\* index of the last token that is not whitespace, 0 if there is none
LastInk(t) ==
    IF \E i \in 1..Len(t) : ~Blank(t[i])
    THEN CHOOSE i \in 1..Len(t) : ~Blank(t[i]) /\ \A j \in (i + 1)..Len(t) : Blank(t[j])
    ELSE 0

FirstInk(t) ==
    IF \E i \in 1..Len(t) : ~Blank(t[i])
    THEN CHOOSE i \in 1..Len(t) : ~Blank(t[i]) /\ \A j \in 1..(i - 1) : Blank(t[j])
    ELSE 1

TrimRight(t) == SubSeq(t, 1, LastInk(t))

Trim(t) == SubSeq(t, FirstInk(t), LastInk(t))

\* the first start marker and the first end marker after it
StartAt(t) == CHOOSE i \in 1..Len(t) :
    t[i] = start_marker /\ \A j \in 1..(i - 1) : t[j] # start_marker

EndAt(t) == CHOOSE i \in (StartAt(t) + 1)..Len(t) :
    t[i] = end_marker /\ \A j \in (StartAt(t) + 1)..(i - 1) : t[j] # end_marker

\* a start marker with an end marker somewhere after it
HasBlock(t) ==
    /\ Occurs(t, start_marker)
    /\ \E i \in (StartAt(t) + 1)..Len(t) : t[i] = end_marker

BeforeOf(t) == SubSeq(t, 1, StartAt(t) - 1)
BetweenOf(t) == SubSeq(t, StartAt(t) + 1, EndAt(t) - 1)
AfterOf(t) == SubSeq(t, EndAt(t) + 1, Len(t))

Block(section) == <<start_marker, NL>> \o section \o <<NL, end_marker>>

\* the last run rendered the table (no failed load, no early exit, no bad record)
Rendered == runs > 0 /\ new_section # <<>>

---------------------------------------------------------------------------
(* Properties *)

\* C2 (marker path): when README.md held a start marker with an end marker after
\* it and the run wrote an update, the text between the markers of the new
\* README.md is newline + the freshly rendered table + newline, and the text
\* before the start marker and after the end marker is the original one.
C2_MarkerPathRoundTrip ==
    (Rendered /\ HasBlock(content) /\ message = Updated) =>
        /\ HasBlock(readme_text)
        /\ new_section = Render(contributors_json.value, repo_name)
        /\ BetweenOf(readme_text) = <<NL>> \o new_section \o <<NL>>
        /\ Trim(BetweenOf(readme_text)) = new_section
        /\ BeforeOf(readme_text) = BeforeOf(content)
        /\ AfterOf(readme_text) = AfterOf(content)

C2_Witness ==
    /\ Rendered /\ HasBlock(content) /\ message = Updated
    /\ BeforeOf(content) # <<>> /\ AfterOf(content) # <<>>
    /\ BetweenOf(content) # <<>>

\* C3 (append path), as stated: when README.md held neither marker and the run
\* wrote an update, README.md is the original text kept verbatim, then the
\* newlines that leave one blank line, then one marker block at the end.
C3_AppendKeepsOriginalVerbatim ==
    (Rendered /\ ~Occurs(content, start_marker) /\ ~Occurs(content, end_marker)
        /\ message = Updated) =>
        \E sep \in {<<>>, <<NL>>, <<NL, NL>>} : \E last \in {<<>>, <<NL>>} :
            readme_text = content \o sep \o Block(new_section) \o last

\* C3 (append path), amended: the original text is kept up to its trailing
\* whitespace, which is trimmed; two newlines, one marker block and a final
\* newline follow, and these are the only markers of README.md.
C3_AppendTrimsThenOneBlock ==
    (Rendered /\ ~Occurs(content, start_marker) /\ ~Occurs(content, end_marker)
        /\ message = Updated) =>
        /\ new_section = Render(contributors_json.value, repo_name)
        /\ readme_text = TrimRight(content) \o <<NL, NL>> \o Block(new_section) \o <<NL>>
        /\ Count(readme_text, start_marker) = 1
        /\ Count(readme_text, end_marker) = 1

C3_Witness ==
    /\ Rendered /\ ~Occurs(content, start_marker) /\ ~Occurs(content, end_marker)
    /\ message = Updated
    /\ content # <<>> /\ TrimRight(content) # content /\ TrimRight(content) # <<>>

\* C9 (single marker): when README.md holds exactly one of the two marker
\* literals and the table was rendered, the run takes the append path: it writes
\* the text with trailing whitespace trimmed, two newlines and a new marker
\* block, and the lone marker stays where it was.
C9_LoneMarkerAppends ==
    (Rendered /\ (Occurs(content, start_marker) # Occurs(content, end_marker))) =>
        /\ path = "append"
        /\ message = Updated
        /\ wrote
        /\ readme_text = TrimRight(content) \o <<NL, NL>> \o Block(new_section) \o <<NL>>
        /\ \A i \in 1..Len(content) :
             content[i] \in {start_marker, end_marker} => readme_text[i] = content[i]

C9_Witness ==
    /\ Rendered /\ message = Updated
    /\ Occurs(content, end_marker) /\ ~Occurs(content, start_marker)
    /\ Count(readme_text, end_marker) = 2

\* C6 (no change), as stated: when the text between the markers, trimmed, is the
\* trimmed new table, nothing is written and the exit code differs from the one
\* of a successful update.
C6_NoChangeHasOwnExitCode ==
    (Rendered /\ HasBlock(content) /\ Trim(BetweenOf(content)) = Trim(new_section)) =>
        /\ ~wrote
        /\ exit_code # ExitSuccess

\* C6 (no change), amended: nothing is written, README.md stays as it was, the
\* run reports that nothing changed and ends with exit code 0, the exit code of a
\* successful update.
C6_NoChangeExitsZero ==
    (Rendered /\ HasBlock(content) /\ Trim(BetweenOf(content)) = Trim(new_section)) =>
        /\ ~wrote
        /\ readme_text = content
        /\ message = NoChanges
        /\ exit_code = 0

C6_Witness ==
    /\ Rendered /\ HasBlock(content)
    /\ Trim(BetweenOf(content)) = Trim(new_section)
    /\ BetweenOf(content) # new_section
    /\ message = NoChanges

\* C8 (marker rule): when both marker literals occur in README.md, in any order
\* and number, and the early exit is not taken, the run ends without a change or
\* with a write of before + start marker + newline + table + newline + end
\* marker + after, where before, section and after split the text read; it does
\* not end with an error.
C8_BothMarkersNeverFail ==
    (runs > 0 /\ Occurs(content, start_marker) /\ Occurs(content, end_marker)
        /\ ~Listed(content, pr_author)) =>
        /\ message \in {NoChanges, Updated}
        /\ message = Updated =>
             \E i \in 1..Len(content) : \E j \in (i + 1)..Len(content) :
                /\ content[i] = start_marker /\ content[j] = end_marker
                /\ readme_text = SubSeq(content, 1, i - 1) \o Block(new_section)
                                    \o SubSeq(content, j + 1, Len(content))

\* C1 (idempotence): a second run on the README.md the first run left, with the
\* same contributors.json and environment, writes nothing, reports that nothing
\* changed (or that the author is listed) and ends with the no-change exit code.
C1_SecondRunWritesNothing ==
    [][(runs = 1 /\ message \in {Updated, NoChanges, Skipped}) =>
          /\ ~wrote'
          /\ readme_text' = readme_text
          /\ message' \in {NoChanges, Skipped}
          /\ exit_code' = ExitNoChange]_vars

\* a record whose login is none of the three excluded ones
NotABot(c) == c["login"] \notin {"actions-user", "github-actions[bot]", "GitHub Action"}

Kept(cs) == SelectSeq(cs, NotABot)

\* the lines of a text
RECURSIVE LinesOf(_)
LinesOf(t) ==
    IF ~Occurs(t, NL) THEN <<t>>
    ELSE LET i == CHOOSE k \in 1..Len(t) : t[k] = NL /\ \A j \in 1..(k - 1) : t[j] # NL
         IN  <<SubSeq(t, 1, i - 1)>> \o LinesOf(SubSeq(t, i + 1, Len(t)))

\* C5 (filter and render): the lines of the rendered table between the six
\* header lines and the two footer lines are the rows of the input records whose
\* login is not an excluded one, one row each, in input order.
C5_RowsAreFilteredInput ==
    Rendered =>
        LET lines == LinesOf(new_section)
            kept == Kept(contributors_json.value)
        IN  /\ Len(lines) = Len(HeaderLines) + Len(kept) + Len(FooterLines)
            /\ SubSeq(lines, 1, Len(HeaderLines)) = HeaderLines
            /\ SubSeq(lines, Len(lines) - 1, Len(lines)) = FooterLines
            /\ \A i \in 1..Len(kept) :
                 lines[Len(HeaderLines) + i] = Row(kept[i], repo_name)

C5_Witness ==
    /\ Rendered
    /\ Len(contributors_json.value) = 2
    /\ ~NotABot(contributors_json.value[1])
    /\ NotABot(contributors_json.value[2])
    /\ Len(LinesOf(new_section)) = Len(HeaderLines) + 1 + Len(FooterLines)

\* C4 (early exit), as stated: when PR_AUTHOR is set and README.md holds
\* ">PR_AUTHOR</a>, the run writes nothing and ends with exit code 0, whatever
\* contributors.json holds.
C4_ListedAuthorAlwaysExitsZero ==
    [][(pr_author # "" /\ readme_file = "present" /\ Listed(readme_text, pr_author)) =>
          /\ ~wrote'
          /\ readme_text' = readme_text
          /\ exit_code' = 0]_vars

\* C4 (early exit), amended: the same, once contributors.json has been read and
\* parsed as JSON (lines 16-17 come first); whatever the parsed value, the
\* records and the markers are.
C4_ListedAuthorExitsZeroOnceLoaded ==
    [][(pr_author # "" /\ readme_file = "present" /\ Listed(readme_text, pr_author)
          /\ contributors_json.state \in {"array", "scalar"}) =>
          /\ ~wrote'
          /\ readme_text' = readme_text
          /\ readme_file' = readme_file
          /\ message' = Skipped
          /\ exit_code' = 0]_vars

C4_Witness ==
    /\ runs > 0 /\ message = Skipped /\ exit_code = 0 /\ ~wrote
    /\ Occurs(content, start_marker)
    /\ contributors_json.state = "array"
    /\ \E i \in 1..Len(contributors_json.value) :
         "login" \notin DOMAIN contributors_json.value[i]

\* the messages of the four `except` clauses
Errors == {ParseError, NotFound, IOError, Unexpected}

LacksKey(c) == Keys \ (DOMAIN c) # {}

\* a record the loop cannot render: no login, or not excluded and no URL
Unrenderable(c) ==
    \/ "login" \notin DOMAIN c
    \/ /\ c["login"] \notin {"actions-user", "github-actions[bot]", "GitHub Action"}
       /\ ("avatar_url" \notin DOMAIN c \/ "html_url" \notin DOMAIN c)

\* contributors.json or README.md cannot be loaded
LoadFails ==
    \/ contributors_json.state \in {"missing", "unreadable", "invalid"}
    \/ readme_file = "unreadable"

\* a missing README.md is read as the empty text and the run reaches the append
MissingReadmeGoesOn ==
    (~LoadFails /\ readme_file = "missing" /\ contributors_json.state = "array"
        /\ \A i \in 1..Len(contributors_json.value) : ~LacksKey(contributors_json.value[i]))
    => /\ content' = <<>>
       /\ path' = "append"
       /\ message' \in {Updated, IOError}

\* C7 (error outcomes), as stated: a missing, unreadable or malformed
\* contributors.json, an unreadable README.md, a failed write, a record without
\* one of its three keys, or any other exception ends the run with exit code 1; a
\* missing README.md is read as the empty text and the run goes on.
C7_EveryFailureExitsOne ==
    [][/\ LoadFails => exit_code' = 1
       /\ (contributors_json.state = "array"
             /\ \E i \in 1..Len(contributors_json.value) :
                  LacksKey(contributors_json.value[i])) => exit_code' = 1
       /\ message' \in Errors => exit_code' = 1
       /\ MissingReadmeGoesOn]_vars

\* C7 (error outcomes), amended: a record without a key ends the run with exit
\* code 1 when the run reads that key, that is when the early exit is not taken
\* and the record has no login or is not excluded and has no avatar_url or
\* html_url; a JSON value that is no array does so too; the rest as stated.
C7_EveryRaisedFailureExitsOne ==
    [][/\ LoadFails => (exit_code' = 1 /\ ~wrote' /\ message' \in Errors)
       /\ (~LoadFails /\ ~Listed(readme_text, pr_author)
             /\ \/ contributors_json.state = "scalar"
                \/ \E i \in 1..Len(contributors_json.value) :
                     Unrenderable(contributors_json.value[i]))
          => (exit_code' = 1 /\ ~wrote' /\ message' = Unexpected)
       /\ message' \in Errors => exit_code' = 1
       /\ exit_code' = 1 => message' \in Errors
       /\ MissingReadmeGoesOn]_vars

C7_Witness ==
    /\ runs > 0 /\ exit_code = 1 /\ message = Unexpected
    /\ contributors_json.state = "array"
    /\ \E i \in 1..Len(contributors_json.value) :
         /\ "login" \in DOMAIN contributors_json.value[i]
         /\ "avatar_url" \notin DOMAIN contributors_json.value[i]

\* C10 (repeated runs): from a README.md without markers, or with one start
\* marker followed by one end marker, no sequence of runs leaves README.md with
\* two start markers, two end markers, or an end marker before the start marker.
C10_AtMostOneBlock ==
    /\ Count(readme_text, start_marker) <= 1
    /\ Count(readme_text, end_marker) <= 1
    /\ (Occurs(readme_text, start_marker) /\ Occurs(readme_text, end_marker)) =>
          HasBlock(readme_text)

C10_Witness ==
    /\ runs > 0 /\ message = Updated /\ path = "marker"
    /\ HasBlock(content) /\ HasBlock(readme_text)
    /\ BetweenOf(content) # BetweenOf(readme_text)
    /\ Len(LinesOf(BetweenOf(content))) > Len(HeaderLines)

====
